---- MODULE Spec2Model ----
(***************************************************************************)
(* Configuration bootstrap of FORD (src/ford/__init__.py): initialize()    *)
(* merges command line, project-file metadata and the defaults table,      *)
(* resolves paths, validates, probes the preprocessor and resolves the     *)
(* licenses; run() hands the result to main().                             *)
(*                                                                         *)
(* Python values are modelled as records with the four fields              *)
(*   kind \in {"none","bool","str","list"}, b, s, l                        *)
(* so that values of different Python types can be compared.               *)
(***************************************************************************)
EXTENDS Integers, Sequences, FiniteSets, TLC

(***************************************************************************)
(* Bounds of the model.                                                    *)
(***************************************************************************)
\* at most this many (source, option) entries are supplied in one run
MaxSupplied == 2
\* a repeated key or flag accumulates at most this many values
MaxValues == 2

(***************************************************************************)
(* Python values.                                                          *)
(***************************************************************************)
None == [kind |-> "none", b |-> FALSE, s |-> "", l |-> <<>>]
Bool(x) == [kind |-> "bool", b |-> x, s |-> "", l |-> <<>>]
Str(x) == [kind |-> "str", b |-> FALSE, s |-> x, l |-> <<>>]
List(x) == [kind |-> "list", b |-> FALSE, s |-> "", l |-> x]

\* Python truthiness, as tested by "if proj_data[...]:"
Truthy(v) ==
    CASE v.kind = "none" -> FALSE
      [] v.kind = "bool" -> v.b
      [] v.kind = "str" -> v.s # ""
      [] v.kind = "list" -> v.l # <<>>

(***************************************************************************)
(* Strings.                                                                *)
(***************************************************************************)
CharAt(s, i) == SubSeq(s, i, i)

RECURSIVE JoinWith(_, _)
\* sep.join(seq)
JoinWith(sep, seq) ==
    IF seq = <<>> THEN ""
    ELSE IF Len(seq) = 1 THEN seq[1]
    ELSE seq[1] \o sep \o JoinWith(sep, Tail(seq))

RECURSIVE SplitOn(_, _, _, _)
\* the pieces of s between occurrences of the character sep, scanning from
\* position i with the current piece cur
SplitOn(sep, s, i, cur) ==
    IF i > Len(s) THEN <<cur>>
    ELSE IF CharAt(s, i) = sep THEN <<cur>> \o SplitOn(sep, s, i + 1, "")
    ELSE SplitOn(sep, s, i + 1, cur \o CharAt(s, i))

NonEmpty(seq) == SelectSeq(seq, LAMBDA x : x # "")

IsSpace(c) == c \in {" ", "\t", "\n", "\r"}

RECURSIVE SplitWs(_, _, _)
\* str.split(): the maximal runs of non-whitespace characters
SplitWs(s, i, cur) ==
    IF i > Len(s) THEN (IF cur = "" THEN <<>> ELSE <<cur>>)
    ELSE IF IsSpace(CharAt(s, i))
         THEN (IF cur = "" THEN <<>> ELSE <<cur>>) \o SplitWs(s, i + 1, "")
    ELSE SplitWs(s, i + 1, cur \o CharAt(s, i))

LowerChar(c) ==
    CASE c = "A" -> "a" [] c = "B" -> "b" [] c = "C" -> "c" [] c = "D" -> "d"
      [] c = "E" -> "e" [] c = "F" -> "f" [] c = "G" -> "g" [] c = "H" -> "h"
      [] c = "I" -> "i" [] c = "J" -> "j" [] c = "K" -> "k" [] c = "L" -> "l"
      [] c = "M" -> "m" [] c = "N" -> "n" [] c = "O" -> "o" [] c = "P" -> "p"
      [] c = "Q" -> "q" [] c = "R" -> "r" [] c = "S" -> "s" [] c = "T" -> "t"
      [] c = "U" -> "u" [] c = "V" -> "v" [] c = "W" -> "w" [] c = "X" -> "x"
      [] c = "Y" -> "y" [] c = "Z" -> "z" [] OTHER -> c

RECURSIVE LowerFrom(_, _)
LowerFrom(s, i) ==
    IF i > Len(s) THEN "" ELSE LowerChar(CharAt(s, i)) \o LowerFrom(s, i + 1)

\* str.lower()
Lower(s) == LowerFrom(s, 1)

(***************************************************************************)
(* Paths (POSIX).                                                          *)
(***************************************************************************)
\* directory of the project file, already absolute
BaseDir == "/proj"

IsAbs(p) == Len(p) > 0 /\ CharAt(p, 1) = "/"

\* os.path.join(a, p)
PathJoin(a, p) ==
    IF IsAbs(p) THEN p
    ELSE IF a = "" \/ CharAt(a, Len(a)) = "/" THEN a \o p
    ELSE a \o "/" \o p

RECURSIVE Collapse(_, _, _)
\* the component stack of os.path.normpath: "" and "." are dropped, ".." pops
\* the previous component (at the root it is dropped, in a relative path kept)
Collapse(comps, acc, abs) ==
    IF comps = <<>> THEN acc
    ELSE LET c == Head(comps) IN
         IF c = "" \/ c = "." THEN Collapse(Tail(comps), acc, abs)
         ELSE IF c # ".." THEN Collapse(Tail(comps), Append(acc, c), abs)
         ELSE IF acc # <<>> /\ acc[Len(acc)] # ".."
              THEN Collapse(Tail(comps), SubSeq(acc, 1, Len(acc) - 1), abs)
         ELSE IF abs THEN Collapse(Tail(comps), acc, abs)
         ELSE Collapse(Tail(comps), Append(acc, c), abs)

\* os.path.normpath(p)
NormPath(p) ==
    LET abs == IsAbs(p)
        body == JoinWith("/", Collapse(SplitOn("/", p, 1, ""), <<>>, abs))
    IN  IF abs THEN "/" \o body
        ELSE IF body = "" THEN "."
        ELSE body

\* the environment of the process
Environ == [name \in {"HOME"} |-> "/home/u"]

WordChars ==
    { "a", "b", "c", "d", "e", "f", "g", "h", "i", "j", "k", "l", "m",
      "n", "o", "p", "q", "r", "s", "t", "u", "v", "w", "x", "y", "z",
      "A", "B", "C", "D", "E", "F", "G", "H", "I", "J", "K", "L", "M",
      "N", "O", "P", "Q", "R", "S", "T", "U", "V", "W", "X", "Y", "Z",
      "0", "1", "2", "3", "4", "5", "6", "7", "8", "9", "_" }

RECURSIVE WordEnd(_, _)
\* the position after the run of word characters of s that starts at i
WordEnd(s, i) ==
    IF i <= Len(s) /\ CharAt(s, i) \in WordChars THEN WordEnd(s, i + 1) ELSE i

RECURSIVE BraceEnd(_, _)
\* the position of the first "}" of s at or after i, 0 if there is none
BraceEnd(s, i) ==
    IF i > Len(s) THEN 0
    ELSE IF CharAt(s, i) = "}" THEN i
    ELSE BraceEnd(s, i + 1)

RECURSIVE ExpandVarsFrom(_, _)
\* os.path.expandvars from position i on: $name and ${name} are replaced
\* when name is in the environment and left alone otherwise
ExpandVarsFrom(s, i) ==
    IF i > Len(s) THEN ""
    ELSE IF CharAt(s, i) # "$" THEN CharAt(s, i) \o ExpandVarsFrom(s, i + 1)
    ELSE IF i < Len(s) /\ CharAt(s, i + 1) = "{"
    THEN LET e == BraceEnd(s, i + 2)
         IN  IF e = 0 THEN "$" \o ExpandVarsFrom(s, i + 1)
             ELSE IF SubSeq(s, i + 2, e - 1) \in DOMAIN Environ
             THEN Environ[SubSeq(s, i + 2, e - 1)] \o ExpandVarsFrom(s, e + 1)
             ELSE SubSeq(s, i, e) \o ExpandVarsFrom(s, e + 1)
    ELSE LET e == WordEnd(s, i + 1)
         IN  IF e = i + 1 THEN "$" \o ExpandVarsFrom(s, i + 1)
             ELSE IF SubSeq(s, i + 1, e - 1) \in DOMAIN Environ
             THEN Environ[SubSeq(s, i + 1, e - 1)] \o ExpandVarsFrom(s, e)
             ELSE SubSeq(s, i, e - 1) \o ExpandVarsFrom(s, e)

ExpandVars(s) == ExpandVarsFrom(s, 1)

\* os.path.expanduser: a leading "~" alone or before "/" is the home
\* directory; "~name" of a user that does not exist is left alone
ExpandUser(p) ==
    IF Len(p) = 0 \/ CharAt(p, 1) # "~" THEN p
    ELSE IF Len(p) = 1 THEN Environ["HOME"]
    ELSE IF CharAt(p, 2) = "/" THEN Environ["HOME"] \o SubSeq(p, 2, Len(p))
    ELSE p

\* normpath(join(base_dir, expanduser(expandvars(p))))
ResolvePath(p) == NormPath(PathJoin(BaseDir, ExpandUser(ExpandVars(p))))

\* ford.utils.split_path: the ordered directory names of a path
split_path(p) == NonEmpty(SplitOn("/", NormPath(p), 1, ""))

(***************************************************************************)
(* The defaults table (the options the claims are about, in table order)   *)
(* and the command-line surface.                                           *)
(***************************************************************************)
OptionOrder ==
    << "author_description", "summary", "src_dir", "extensions",
       "fpp_extensions", "output_dir", "project_url",
       "externalize", "docmark", "docmark_alt", "predocmark", "predocmark_alt",
       "preprocess", "preprocessor", "warn", "search", "license", "doc_license" >>

Options == {OptionOrder[i] : i \in 1..Len(OptionOrder)}

defaults ==
    [o \in Options |->
        CASE o = "author_description" -> None
          [] o = "summary" -> None
          [] o = "src_dir" -> List(<<"./src">>)
          [] o = "extensions" -> List(<<"f90", "f95", "f03", "f08", "f15">>)
          [] o = "fpp_extensions" ->
                List(<<"F90", "F95", "F03", "F08", "F15", "F", "FOR">>)
          [] o = "output_dir" -> Str("./doc")
          [] o = "project_url" -> Str("")
          [] o = "externalize" -> Bool(FALSE)
          [] o = "docmark" -> Str("!")
          [] o = "docmark_alt" -> Str("*")
          [] o = "predocmark" -> Str(">")
          [] o = "predocmark_alt" -> Str("|")
          [] o = "preprocess" -> Bool(TRUE)
          [] o = "preprocessor" -> Str("")
          [] o = "warn" -> Bool(FALSE)
          [] o = "search" -> Bool(TRUE)
          [] o = "license" -> Str("")
          [] o = "doc_license" -> Str("")]

\* the attributes argparse gives the namespace for the options above; each
\* is None unless its flag was given
ArgOptions ==
    {"src_dir", "extensions", "output_dir", "warn", "search", "externalize"}

(***************************************************************************)
(* Inputs of one run: what the command line and the metadata block of the  *)
(* project file supply.                                                    *)
(***************************************************************************)
RECURSIVE ListsUpTo(_, _)
\* the non-empty sequences over T of length at most n
ListsUpTo(T, n) ==
    IF n <= 1 THEN {<<x>> : x \in T}
    ELSE LET shorter == ListsUpTo(T, n - 1)
         IN  shorter \cup {Append(q, x) : q \in shorter, x \in T}

Singles(T) == {<<x>> : x \in T}

\* what a flag stores in the namespace when given
CliValues(o) ==
    CASE o = "warn" -> {Bool(TRUE)}
      [] o = "search" -> {Bool(FALSE)}
      [] o = "externalize" -> {Str("true")}
      [] o = "output_dir" -> {Str("./doc/../src"), Str("~/doc")}
      [] o = "extensions" -> {List(<<"f18", "f90">>)}
      [] o = "src_dir" ->
            {List(q \o <<x>>) :
                q \in {<<>>} \cup ListsUpTo({"./lib"}, MaxValues - 1),
                x \in {"./lib", "./doc/api"}}

\* the value lists a metadata key can hold (never empty: a key has a value)
MetaValues(o) ==
    CASE o = "warn" -> ListsUpTo({"False"}, MaxValues) \cup Singles({"maybe"})
      [] o = "search" -> Singles({"true"})
      [] o = "externalize" -> Singles({"False", "maybe"})
      [] o = "preprocess" -> Singles({"FALSE"})
      [] o = "src_dir" -> Singles({"./lib", "${HOME}/doc/$src"})
      [] o = "output_dir" -> Singles({"./lib", "./lib/doc"})
      [] o = "extensions" -> {<<"F90", "f2k">>}
      [] o = "fpp_extensions" -> {<<"fpp", "f18">>}
      [] o = "docmark" -> Singles({""})
      [] o = "docmark_alt" -> Singles({"!", ""})
      [] o = "predocmark" -> Singles({"!", "*", "|"})
      [] o = "predocmark_alt" -> Singles({"!", "*"})
      [] o = "preprocessor" -> Singles({"gfortran  -E"})
      [] o = "project_url" -> Singles({"http://x.org"})
      [] o = "summary" -> ListsUpTo({"sum"}, MaxValues)
      [] o = "author_description" -> Singles({"me"})
      [] o = "license" -> Singles({"MIT", "proprietary"})
      [] o = "doc_license" -> Singles({"by", "Custom"})

\* the (source, option) slots a run can fill, in a fixed order
Slots ==
    << <<"cli", "src_dir">>, <<"cli", "extensions">>, <<"cli", "output_dir">>,
       <<"cli", "warn">>, <<"cli", "search">>, <<"cli", "externalize">> >>
    \o [i \in 1..Len(OptionOrder) |-> <<"meta", OptionOrder[i]>>]

SlotValues(slot) ==
    IF slot[1] = "cli" THEN CliValues(slot[2])
    ELSE {List(q) : q \in MetaValues(slot[2])}

\* Inputs[k, n]: the inputs that fill at most n of the slots k, k+1, ...,
\* each a sequence of supplies [src, opt, v] in slot order
Inputs[k \in 1..(Len(Slots) + 1), n \in 0..MaxSupplied] ==
    IF n = 0 \/ k > Len(Slots) THEN {<<>>}
    ELSE Inputs[k + 1, n] \cup
         {<<[src |-> Slots[k][1], opt |-> Slots[k][2], v |-> x]>> \o rest :
             x \in SlotValues(Slots[k]), rest \in Inputs[k + 1, n - 1]}

Supplied(I, src, o) == {i \in 1..Len(I) : I[i].src = src /\ I[i].opt = o}

\* the argparse namespace of a run (lines 152-270)
ArgsOf(I) ==
    [o \in ArgOptions |->
        IF Supplied(I, "cli", o) # {}
        THEN I[CHOOSE i \in Supplied(I, "cli", o) : TRUE].v
        ELSE None]

\* md.Meta of a run (lines 302-303): key -> list of strings
MetaOf(I) ==
    [o \in {x \in Options : Supplied(I, "meta", x) # {}} |->
        I[CHOOSE i \in Supplied(I, "meta", o) : TRUE].v.l]

(***************************************************************************)
(* State.                                                                  *)
(***************************************************************************)
VARIABLES
    pc,          \* position of the run
    args,        \* the parsed command line
    meta,        \* the metadata block as read from the project file
    proj_data,   \* the configuration dictionary under construction
    diag,        \* the diagnostic of the error that ended the run, if any
    notices,     \* warnings and notices printed so far
    probe,       \* "none", "started" or "failed": the preprocessor probe
    licensed,    \* the license resolution has run
    returned,    \* proj_data as initialize() returned it
    exitStatus   \* process exit status, -1 while running

vars ==
    << pc, args, meta, proj_data, diag, notices, probe, licensed, returned,
       exitStatus >>

NoDiag == [kind |-> "", a |-> "", b |-> <<>>]
NoConfig == [o \in {} |-> None]

Init ==
    /\ \E I \in Inputs[1, MaxSupplied] :
          /\ args = ArgsOf(I)
          /\ meta = MetaOf(I)
          /\ proj_data = [o \in DOMAIN MetaOf(I) |-> List(MetaOf(I)[o])]
    /\ pc = "merge"
    /\ diag = NoDiag
    /\ notices = <<>>
    /\ probe = "none"
    /\ licensed = FALSE
    /\ returned = NoConfig
    /\ exitStatus = -1

(***************************************************************************)
(* The merge loop (lines 388-399).                                         *)
(***************************************************************************)
\* ford.utils.str_to_bool: 'true'/'false', ignoring case
str_to_bool(text) ==
    IF Lower(text) = "true" THEN [ok |-> TRUE, b |-> TRUE]
    ELSE IF Lower(text) = "false" THEN [ok |-> TRUE, b |-> FALSE]
    ELSE [ok |-> FALSE, b |-> FALSE]

\* the result of a conversion: a value, or the ValueError raised
Value(x) == [ok |-> TRUE, v |-> x, err |-> NoDiag]
Raise(kind, name, input) ==
    [ok |-> FALSE, v |-> None, err |-> [kind |-> kind, a |-> name, b |-> input]]

\* a conversion that looks at the first value only
convert_first_to_bool(name, option) ==
    LET r == str_to_bool(option[1])
    IN  IF r.ok THEN Value(Bool(r.b))
        ELSE Raise("bool_token", name, <<option[1]>>)

convert_to_bool(name, option) ==
    IF Len(option) > 1 THEN Raise("bool_list", name, option)
    ELSE LET r == str_to_bool(option[1])
         IN  IF r.ok THEN Value(Bool(r.b))
             ELSE Raise("bool_token", name, <<option[1]>>)

\* a test of the command-line value by truthiness instead of "is not None"
CliGivenTruthy(a, option) == option \in DOMAIN a /\ Truthy(a[option])

\* hasattr(args, option) and getattr(args, option) is not None
CliGiven(a, option) == option \in DOMAIN a /\ a[option] # None

\* an iteration that extends the metadata list with the command-line list
MergeOneExtending(option, a, pd) ==
    IF CliGiven(a, option)
    THEN IF a[option].kind = "list" /\ option \in DOMAIN pd
         THEN Value(List(pd[option].l \o a[option].l))
         ELSE Value(a[option])
    ELSE IF option \in DOMAIN pd
    THEN IF defaults[option].kind = "bool"
         THEN convert_to_bool(option, pd[option].l)
         ELSE IF defaults[option].kind # "list"
         THEN Value(Str(JoinWith("\n", pd[option].l)))
         ELSE Value(pd[option])
    ELSE Value(defaults[option])

\* one iteration of the loop: the value stored under option
MergeOne(option, a, pd) ==
    IF CliGiven(a, option) THEN Value(a[option])
    ELSE IF option \in DOMAIN pd
    THEN IF defaults[option].kind = "bool"
         THEN convert_to_bool(option, pd[option].l)
         ELSE IF defaults[option].kind # "list"
         THEN Value(Str(JoinWith("\n", pd[option].l)))
         ELSE Value(pd[option])
    ELSE Value(defaults[option])

RECURSIVE MergeFrom(_, _, _)
\* the loop from the i-th table entry on; stops at the first ValueError
MergeFrom(i, a, pd) ==
    IF i > Len(OptionOrder) THEN [pd |-> pd, err |-> NoDiag]
    ELSE LET r == MergeOne(OptionOrder[i], a, pd)
         IN  IF r.ok
             THEN MergeFrom(i + 1, a, (OptionOrder[i] :> r.v) @@ pd)
             ELSE [pd |-> pd, err |-> r.err]

Merge ==
    /\ pc = "merge"
    /\ LET r == MergeFrom(1, args, proj_data)
       IN  /\ proj_data' = r.pd
           /\ diag' = r.err
           /\ pc' = IF r.err = NoDiag THEN "paths" ELSE "exited"
           /\ exitStatus' = IF r.err = NoDiag THEN exitStatus ELSE 1
    /\ UNCHANGED << args, meta, notices, probe, licensed, returned >>

(***************************************************************************)
(* Path resolution and derived keys (lines 401-438).                       *)
(***************************************************************************)
\* lines 436-438: extensions += the fpp_extensions it does not hold yet
WithFppExtensions(extensions, fpp_extensions) ==
    extensions \o
    SelectSeq(fpp_extensions,
              LAMBDA ext : \A i \in 1..Len(extensions) : extensions[i] # ext)

ResolvePaths ==
    /\ pc = "paths"
    /\ proj_data' =
          [k \in DOMAIN proj_data \cup {"base_dir", "relative"} |->
              CASE k = "base_dir" -> Str(BaseDir)
                [] k = "src_dir" ->
                      List([i \in 1..Len(proj_data[k].l) |->
                               ResolvePath(proj_data[k].l[i])])
                [] k = "output_dir" ->
                      IF proj_data[k] # None
                      THEN Str(ResolvePath(proj_data[k].s))
                      ELSE proj_data[k]
                [] k = "relative" -> Bool(proj_data["project_url"] = Str(""))
                [] k = "extensions" ->
                      List(WithFppExtensions(proj_data[k].l,
                                             proj_data["fpp_extensions"].l))
                [] OTHER -> proj_data[k]]
    /\ pc' = "contain"
    /\ UNCHANGED << args, meta, diag, notices, probe, licensed, returned,
                    exitStatus >>

(***************************************************************************)
(* No src_dir inside output_dir (lines 450-467).                           *)
(***************************************************************************)
RECURSIVE RemoveFirst(_, _)
\* list.remove(x)
RemoveFirst(seq, x) ==
    IF seq = <<>> THEN seq
    ELSE IF Head(seq) = x THEN Tail(seq)
    ELSE <<Head(seq)>> \o RemoveFirst(Tail(seq), x)

RECURSIVE WalkOut(_, _, _)
\* the for-loop over out_path from its i-th directory on: TRUE when it runs
\* to its end, so that the else clause executes; FALSE when it breaks
WalkOut(proj_path, out_path, i) ==
    IF i > Len(out_path) THEN TRUE
    ELSE IF Len(proj_path) = 0 THEN FALSE
    ELSE IF out_path[i] = proj_path[1]
         THEN WalkOut(RemoveFirst(proj_path, out_path[i]), out_path, i + 1)
    ELSE FALSE

RECURSIVE WalkConsumed(_, _, _)
\* a walk that also reports a source path used up before the output path
WalkConsumed(proj_path, out_path, i) ==
    IF i > Len(out_path) \/ Len(proj_path) = 0 THEN TRUE
    ELSE IF out_path[i] = proj_path[1]
         THEN WalkConsumed(RemoveFirst(proj_path, out_path[i]), out_path, i + 1)
    ELSE FALSE

ContainedWhenConsumed(projdir, outdir) ==
    WalkConsumed(split_path(projdir), split_path(outdir), 1)

RECURSIVE WalkNoRemove(_, _, _)
\* a walk that never removes the matched directory from proj_path
WalkNoRemove(proj_path, out_path, i) ==
    IF i > Len(out_path) THEN TRUE
    ELSE IF Len(proj_path) = 0 THEN FALSE
    ELSE IF out_path[i] = proj_path[1]
         THEN WalkNoRemove(proj_path, out_path, i + 1)
    ELSE FALSE

ContainedNoRemove(projdir, outdir) ==
    WalkNoRemove(split_path(projdir), split_path(outdir), 1)

\* whether the check reports projdir for output directory outdir
Contained(projdir, outdir) == WalkOut(split_path(projdir), split_path(outdir), 1)

\* the positions of the reported source directories
Offending(pd) ==
    {i \in 1..Len(pd["src_dir"].l) :
        Contained(pd["src_dir"].l[i], pd["output_dir"].s)}

Min(S) == CHOOSE x \in S : \A y \in S : x <= y

CheckContainment ==
    /\ pc = "contain"
    /\ IF Offending(proj_data) # {}
       THEN /\ diag' = [kind |-> "contain",
                        a |-> proj_data["src_dir"].l[Min(Offending(proj_data))],
                        b |-> <<proj_data["output_dir"].s>>]
            /\ exitStatus' = 1
            /\ pc' = "exited"
       ELSE /\ pc' = "marks"
            /\ UNCHANGED << diag, exitStatus >>
    /\ UNCHANGED << args, meta, proj_data, notices, probe, licensed, returned >>

(***************************************************************************)
(* No two docmarks the same (lines 468-486).                               *)
(***************************************************************************)
\* the comparisons with the one of docmark_alt and predocmark_alt left out
MarkPairsFive ==
    << <<"docmark", "predocmark">>, <<"docmark", "docmark_alt">>,
       <<"docmark", "predocmark_alt">>, <<"docmark_alt", "predocmark">>,
       <<"predocmark", "predocmark_alt">> >>

\* the six comparisons, in the order of the code
MarkPairs ==
    << <<"docmark", "predocmark">>, <<"docmark", "docmark_alt">>,
       <<"docmark", "predocmark_alt">>, <<"docmark_alt", "predocmark">>,
       <<"docmark_alt", "predocmark_alt">>, <<"predocmark", "predocmark_alt">> >>

\* proj_data[x] == proj_data[y] != ""
SameMark(pd, pair) == pd[pair[1]] = pd[pair[2]] /\ pd[pair[2]] # Str("")

Collisions(pd) == {i \in 1..Len(MarkPairs) : SameMark(pd, MarkPairs[i])}

\* a check that prints the error and goes on
CheckMarksNoExit ==
    /\ pc = "marks"
    /\ IF Collisions(proj_data) # {}
       THEN /\ diag' = [kind |-> "marks",
                        a |-> MarkPairs[Min(Collisions(proj_data))][1],
                        b |-> <<MarkPairs[Min(Collisions(proj_data))][2]>>]
            /\ exitStatus' = 1
       ELSE UNCHANGED << diag, exitStatus >>
    /\ pc' = "probe"
    /\ UNCHANGED << args, meta, proj_data, notices, probe, licensed, returned >>

CheckMarks ==
    /\ pc = "marks"
    /\ IF Collisions(proj_data) # {}
       THEN /\ diag' = [kind |-> "marks",
                        a |-> MarkPairs[Min(Collisions(proj_data))][1],
                        b |-> <<MarkPairs[Min(Collisions(proj_data))][2]>>]
            /\ exitStatus' = 1
            /\ pc' = "exited"
       ELSE /\ pc' = "probe"
            /\ UNCHANGED << diag, exitStatus >>
    /\ UNCHANGED << args, meta, proj_data, notices, probe, licensed, returned >>

(***************************************************************************)
(* The preprocessor probe (lines 499-520).                                 *)
(***************************************************************************)
DefaultPreprocessor == <<"cpp", "-traditional-cpp", "-E", "-D__GFORTRAN__">>

\* the command that is probed
PreprocessorCommand(pd) ==
    IF Truthy(pd["preprocessor"])
    THEN SplitWs(pd["preprocessor"].s, 1, "")
    ELSE DefaultPreprocessor

\* proj_data after the probe; started is FALSE when Popen raised OSError
AfterProbe(pd, started) ==
    IF started
    THEN [pd EXCEPT !["preprocess"] = Str("true"),
                    !["preprocessor"] = List(PreprocessorCommand(pd))]
    ELSE [pd EXCEPT !["preprocess"] = Str("false")]

Probe ==
    /\ pc = "probe"
    /\ IF Truthy(proj_data["preprocess"])
       THEN \E started \in BOOLEAN :
               /\ probe' = IF started THEN "started" ELSE "failed"
               /\ proj_data' = AfterProbe(proj_data, started)
               /\ notices' =
                     IF started THEN notices
                     ELSE Append(notices,
                                 [kind |-> "preprocessor", a |-> "OSError",
                                  b |-> PreprocessorCommand(proj_data)])
       ELSE UNCHANGED << probe, proj_data, notices >>
    /\ pc' = "license"
    /\ UNCHANGED << args, meta, diag, licensed, returned, exitStatus >>

(***************************************************************************)
(* License resolution and return (lines 522-543).                          *)
(***************************************************************************)
LICENSE_KEYS ==
    {"by", "by-nd", "by-sa", "by-nc", "by-nc-nd", "by-nc-sa", "gfdl", "opl", "pdl", "bsd", "isc", "mit", ""}

\* LICENSES[key], for key \in LICENSE_KEYS
LICENSES(key) ==
    IF key = "by" THEN
        "<a rel=\"license\" href=\"http://creativecommons.org/licenses/by/4.0/\"><img alt=\"Creative Commons License\" style=\"border-width:0\" src=\"https://i.creativecommons.org/l/by/4.0/80x15.png\" /></a>"
    ELSE
    IF key = "by-nd" THEN
        "<a rel=\"license\" href=\"http://creativecommons.org/licenses/by-nd/4.0/\"><img alt=\"Creative Commons License\" style=\"border-width:0\" src=\"https://i.creativecommons.org/l/by-nd/4.0/80x15.png\" /></a>"
    ELSE
    IF key = "by-sa" THEN
        "<a rel=\"license\" href=\"http://creativecommons.org/licenses/by-sa/4.0/\"><img alt=\"Creative Commons License\" style=\"border-width:0\" src=\"https://i.creativecommons.org/l/by-sa/4.0/80x15.png\" /></a>"
    ELSE
    IF key = "by-nc" THEN
        "<a rel=\"license\" href=\"http://creativecommons.org/licenses/by-nc/4.0/\"><img alt=\"Creative Commons License\" style=\"border-width:0\" src=\"https://i.creativecommons.org/l/by-nc/4.0/80x15.png\" /></a>"
    ELSE
    IF key = "by-nc-nd" THEN
        "<a rel=\"license\" href=\"http://creativecommons.org/licenses/by-nc-nd/4.0/\"><img alt=\"Creative Commons License\" style=\"border-width:0\" src=\"https://i.creativecommons.org/l/by-nc-nd/4.0/80x15.png\" /></a>"
    ELSE
    IF key = "by-nc-sa" THEN
        "<a rel=\"license\" href=\"http://creativecommons.org/licenses/by-nc-sa/4.0/\"><img alt=\"Creative Commons License\" style=\"border-width:0\" src=\"https://i.creativecommons.org/l/by-nc-sa/4.0/80x15.png\" /></a>"
    ELSE
    IF key = "gfdl" THEN
        "<a rel=\"license\" href=\"http://www.gnu.org/licenses/old-licenses/fdl-1.2.en.html\">GNU Free Documentation License</a>"
    ELSE
    IF key = "opl" THEN
        "<a rel=\"license\" href=\"http://opencontent.org/openpub/\">Open Publication License</a>"
    ELSE
    IF key = "pdl" THEN
        "<a rel=\"license\" href=\"http://www.openoffice.org/licenses/PDL.html\">Public Documentation License</a>"
    ELSE
    IF key = "bsd" THEN
        "<a rel=\"license\" href=\"http://www.freebsd.org/copyright/freebsd-doc-license.html\">FreeBSD Documentation License</a>"
    ELSE
    IF key = "isc" THEN
        "<a rel=\"license\" href=\"https://opensource.org/licenses/ISC\">ISC (Internet Systems Consortium) License</a>"
    ELSE
    IF key = "mit" THEN
        "<a rel=\"license\" href=\"https://opensource.org/licenses/MIT\">MIT</a>"
    ELSE
    IF key = "" THEN
        ""
    ELSE ""

\* a lookup that leaves the case of the value as it is
ResolveLicenseCased(v) ==
    IF v.s \in LICENSE_KEYS THEN Str(LICENSES(v.s)) ELSE v

\* the value stored under a license option, and the notice printed for it
ResolveLicense(v) ==
    IF Lower(v.s) \in LICENSE_KEYS THEN Str(LICENSES(Lower(v.s))) ELSE v

LicenseNotices(pd) ==
    SelectSeq(<< [kind |-> "license", a |-> "license", b |-> <<pd["license"].s>>],
                 [kind |-> "license", a |-> "doc_license",
                  b |-> <<pd["doc_license"].s>>] >>,
              LAMBDA n : Lower(n.b[1]) \notin LICENSE_KEYS)

ResolveLicenses ==
    /\ pc = "license"
    /\ proj_data' =
          [proj_data EXCEPT !["license"] = ResolveLicense(@),
                            !["doc_license"] = ResolveLicense(@)]
    /\ notices' = notices \o LicenseNotices(proj_data)
    /\ licensed' = TRUE
    /\ returned' = proj_data'
    /\ pc' = "returned"
    /\ UNCHANGED << args, meta, diag, probe, exitStatus >>

(***************************************************************************)
(* run() and main() (lines 546-637).                                       *)
(***************************************************************************)
\* md.convert on a plain paragraph (sub_notes, sub_macros and sub_links leave
\* a text without notes, macros and links as it is)
md_convert(text) == "<p>" \o text \o "</p>"

\* lines 550-551
MainUrl(pd) ==
    IF Truthy(pd["relative"]) THEN [pd EXCEPT !["project_url"] = Str(".")]
    ELSE pd

\* lines 588-600
Rendered(v) == IF v # None THEN Str(md_convert(v.s)) ELSE v

\* a main() that renders the license text as well
MainConfigRenderingLicense(pd) ==
    [k \in DOMAIN pd \cup {"pages"} |->
        CASE k = "summary" -> Rendered(pd[k])
          [] k = "author_description" -> Rendered(pd[k])
          [] k = "license" -> Rendered(pd[k])
          [] k = "pages" -> None
          [] OTHER -> pd[k]]

\* lines 585-612: proj_data when main() reaches the output stage
MainConfig(pd) ==
    [k \in DOMAIN pd \cup {"pages"} |->
        CASE k = "summary" -> Rendered(pd[k])
          [] k = "author_description" -> Rendered(pd[k])
          [] k = "pages" -> None
          [] OTHER -> pd[k]]

Main ==
    /\ pc = "returned"
    /\ \E no_files \in BOOLEAN :
          IF no_files
          THEN /\ proj_data' = MainUrl(proj_data)
               /\ diag' = [kind |-> "no_files", a |-> "", b |-> <<>>]
               /\ exitStatus' = 1
               /\ pc' = "exited"
          ELSE /\ proj_data' = MainConfig(MainUrl(proj_data))
               /\ exitStatus' = 0
               /\ pc' = "done"
               /\ UNCHANGED diag
    /\ UNCHANGED << args, meta, notices, probe, licensed, returned >>

Next ==
    \/ Merge
    \/ ResolvePaths
    \/ CheckContainment
    \/ CheckMarks
    \/ Probe
    \/ ResolveLicenses
    \/ Main

Spec == Init /\ [][Next]_vars

(***************************************************************************)
(* Vocabulary of the properties.                                           *)
(***************************************************************************)
BoolErrors == {"bool_list", "bool_token"}
FatalConfigErrors == BoolErrors \cup {"contain", "marks"}

MergeDone == pc # "merge" /\ diag.kind \notin BoolErrors
ContainChecked == MergeDone /\ pc \notin {"paths", "contain"}
MarksChecked == ContainChecked /\ pc # "marks" /\ diag.kind # "contain"
MainRan == pc = "done" \/ (pc = "exited" /\ diag.kind = "no_files")

IsPrefix(a, b) == Len(a) <= Len(b) /\ SubSeq(b, 1, Len(a)) = a
Segments(p) == NonEmpty(SplitOn("/", p, 1, ""))
SrcSegs(i) == Segments(proj_data["src_dir"].l[i])
OutSegs == Segments(proj_data["output_dir"].s)
SrcIndex == 1..Len(proj_data["src_dir"].l)

\* the source is the output or lies inside it
Inside(i) == IsPrefix(OutSegs, SrcSegs(i))
\* the output lies strictly inside the source
Ancestor(i) == IsPrefix(SrcSegs(i), OutSegs) /\ SrcSegs(i) # OutSegs
\* the two paths differ at some directory: neither contains the other
Diverge(i) == ~IsPrefix(OutSegs, SrcSegs(i)) /\ ~IsPrefix(SrcSegs(i), OutSegs)

(***************************************************************************)
(* C1                                                                      *)
(***************************************************************************)
\* what the metadata list q yields for option o
FromMeta(o, q, v) ==
    CASE defaults[o].kind = "bool" ->
            v.kind = "bool" /\ Len(q) = 1 /\ (v.b <=> Lower(q[1]) = "true")
      [] defaults[o].kind = "list" -> v = List(q)
      [] OTHER -> v = Str(JoinWith("\n", q))

\* C1: after the merge loop every option holds the value of the first source
\* that supplies it: the command line when the flag was given (its value is
\* not None, be it False or empty), else the metadata, else the default.
C1_MergePrecedence ==
    (pc = "paths") =>
        \A o \in Options :
            IF o \in ArgOptions /\ args[o] # None THEN proj_data[o] = args[o]
            ELSE IF o \in DOMAIN meta
                 THEN FromMeta(o, meta[o], proj_data[o])
            ELSE proj_data[o] = defaults[o]

\* --no-search on the command line, search: true in the metadata
C1_Witness ==
    /\ pc = "paths"
    /\ args["search"] = Bool(FALSE)
    /\ "search" \in DOMAIN meta
    /\ proj_data["search"] = Bool(FALSE)

(***************************************************************************)
(* C2                                                                      *)
(***************************************************************************)
\* C2 as stated: once the containment check has run, a source directory that
\* is a proper ancestor of the output directory (src_dir ./lib with
\* output_dir ./lib/doc) has ended the run with the containment error and
\* exit status 1.
C2_AncestorIsFatal ==
    (ContainChecked /\ \E i \in SrcIndex : Ancestor(i)) =>
        (pc = "exited" /\ exitStatus = 1 /\ diag.kind = "contain")

\* C2 as amended: a source directory that is a proper ancestor of the output
\* directory is not reported: when every source directory is one, the check
\* does not end the run, and the directory an error names is never one.
C2_AncestorIsNotReported ==
    ContainChecked =>
        /\ (\A i \in SrcIndex : Ancestor(i)) => diag.kind # "contain"
        /\ diag.kind = "contain" =>
              \E i \in SrcIndex :
                  proj_data["src_dir"].l[i] = diag.a /\ ~Ancestor(i)

\* src_dir: ./lib and output_dir: ./lib/doc in the metadata, check passed
C2_Witness ==
    /\ pc = "marks"
    /\ "src_dir" \in DOMAIN meta /\ meta["src_dir"] = <<"./lib">>
    /\ "output_dir" \in DOMAIN meta /\ meta["output_dir"] = <<"./lib/doc">>
    /\ proj_data["src_dir"].l = <<"/proj/lib">>
    /\ proj_data["output_dir"].s = "/proj/lib/doc"

(***************************************************************************)
(* C3                                                                      *)
(***************************************************************************)
\* C3: once the containment check has run: if some source directory equals
\* the output directory or lies inside it, the run has ended with exit
\* status 1 and the error names the first such directory; if every source
\* directory differs from the output directory at some segment, the check
\* has not ended the run.
C3_InsideIsFatal ==
    ContainChecked =>
        /\ (\E i \in SrcIndex : Inside(i)) =>
              /\ pc = "exited" /\ exitStatus = 1 /\ diag.kind = "contain"
              /\ \E i \in SrcIndex :
                    /\ Inside(i) /\ diag.a = proj_data["src_dir"].l[i]
                    /\ \A j \in 1..(i - 1) : ~Inside(j)
              /\ diag.b = <<proj_data["output_dir"].s>>
        /\ (\A i \in SrcIndex : Diverge(i)) => diag.kind # "contain"

\* two source directories, the second one inside the output directory
C3_Witness ==
    /\ pc = "exited" /\ diag.kind = "contain"
    /\ Len(proj_data["src_dir"].l) = 2
    /\ Diverge(1) /\ Inside(2) /\ SrcSegs(2) # OutSegs
    /\ diag.a = proj_data["src_dir"].l[2]

(***************************************************************************)
(* C4                                                                      *)
(***************************************************************************)
\* the kind the defaults table declares for o admits the value v
OfDeclaredKind(o, v) ==
    CASE defaults[o].kind = "bool" -> v.kind = "bool"
      [] defaults[o].kind = "list" -> v.kind = "list"
      [] defaults[o].kind = "str" -> v.kind = "str"
      [] OTHER -> v.kind \in {"none", "str"}

\* C4: the configuration initialize() returns holds every key of the
\* defaults table, with a value of the kind declared for it.
C4_DeclaredKinds ==
    (pc = "returned") =>
        \A o \in Options :
            o \in DOMAIN proj_data /\ OfDeclaredKind(o, proj_data[o])

(***************************************************************************)
(* C5                                                                      *)
(***************************************************************************)
MarkOptions == {"docmark", "docmark_alt", "predocmark", "predocmark_alt"}
Equal2(x, y) == proj_data[x] = proj_data[y] /\ proj_data[x] # Str("")
OffendingPairs ==
    {pr \in SUBSET MarkOptions :
        Cardinality(pr) = 2 /\ \A x \in pr, y \in pr : x # y => Equal2(x, y)}

\* C5: once the mark check has run, it has ended the run with exit status 1
\* exactly when two of the four marks are equal and non-empty, and the error
\* then names the first such pair in the order of the checks.
C5_MarkCollision ==
    MarksChecked =>
        /\ (pc = "exited" /\ exitStatus = 1 /\ diag.kind = "marks")
              <=> OffendingPairs # {}
        /\ diag.kind = "marks" <=> OffendingPairs # {}
        /\ diag.kind = "marks" =>
              \E i \in 1..Len(MarkPairs) :
                  /\ MarkPairs[i] = <<diag.a, diag.b[1]>>
                  /\ {diag.a, diag.b[1]} \in OffendingPairs
                  /\ \A j \in 1..(i - 1) :
                        {MarkPairs[j][1], MarkPairs[j][2]} \notin OffendingPairs

\* docmark_alt and predocmark_alt collide, no earlier pair does
C5_Witness ==
    /\ pc = "exited" /\ diag.kind = "marks"
    /\ diag.a = "docmark_alt" /\ diag.b = <<"predocmark_alt">>

(***************************************************************************)
(* C6                                                                      *)
(***************************************************************************)
\* the boolean options whose value the metadata decides
MetaBools ==
    {o \in DOMAIN meta :
        defaults[o].kind = "bool" /\ ~(o \in ArgOptions /\ args[o] # None)}

\* exactly one value, a true/false token
GoodBool(o) == Len(meta[o]) = 1 /\ Lower(meta[o][1]) \in {"true", "false"}

\* C6: once the merge loop has run: it succeeded only if every boolean option
\* decided by the metadata has exactly one value, a true/false token; if one
\* has several values or another token, the run has stopped with an error
\* that names such an option and its raw input, and nothing was returned.
C6_BadBoolean ==
    (pc # "merge") =>
        /\ (diag.kind \notin BoolErrors) <=> (\A o \in MetaBools : GoodBool(o))
        /\ diag.kind \in BoolErrors =>
              /\ pc = "exited" /\ exitStatus = 1 /\ returned = NoConfig
              /\ diag.a \in MetaBools /\ ~GoodBool(diag.a)
              /\ diag.kind = "bool_list" =>
                    Len(meta[diag.a]) > 1 /\ diag.b = meta[diag.a]
              /\ diag.kind = "bool_token" =>
                    Len(meta[diag.a]) = 1 /\ diag.b = meta[diag.a]

\* warn given two values, each of them a valid token
C6_Witness ==
    /\ pc = "exited"
    /\ diag = [kind |-> "bool_list", a |-> "warn", b |-> <<"False", "False">>]

(***************************************************************************)
(* C7                                                                      *)
(***************************************************************************)
\* C7: when the preprocessor could not be started, initialize() returns a
\* configuration, has printed a warning naming the command, and a test of
\* the preprocess value in that configuration finds preprocessing off.
C7_FailedProbeDisables ==
    (pc = "returned" /\ probe = "failed") =>
        /\ exitStatus = -1
        /\ \E i \in 1..Len(notices) : notices[i].kind = "preprocessor"
        /\ ~Truthy(proj_data["preprocess"])

(***************************************************************************)
(* C8                                                                      *)
(***************************************************************************)
\* C8 as stated: main() leaves every key of the defaults table as
\* initialize() returned it.
C8_NoOverwrite ==
    MainRan => \A o \in Options : proj_data[o] = returned[o]

Rewritten == {"project_url", "summary", "author_description"}

\* C8 as amended: main() overwrites no key of the defaults table but
\* project_url (set to "." when the configured project URL is empty) and
\* summary and author_description (replaced by their rendering when they
\* are not None); when it completes it has added the key pages.
C8_OnlyRenderedKeysOverwritten ==
    MainRan =>
        /\ \A o \in Options \ Rewritten : proj_data[o] = returned[o]
        /\ proj_data["project_url"] =
              (IF returned["project_url"] = Str("") THEN Str(".")
               ELSE returned["project_url"])
        /\ \A o \in {"summary", "author_description"} :
              returned[o] = None => proj_data[o] = None
        /\ pc = "done" =>
              /\ "pages" \in DOMAIN proj_data /\ "pages" \notin DOMAIN returned
              /\ \A o \in {"summary", "author_description"} :
                    returned[o] # None => proj_data[o] # returned[o]

\* main() completed after rendering a summary, a custom license kept
C8_Witness ==
    /\ pc = "done"
    /\ returned["summary"] # None
    /\ proj_data["summary"] # returned["summary"]
    /\ proj_data["license"] = Str("proprietary")

(***************************************************************************)
(* C9                                                                      *)
(***************************************************************************)
\* C9: after a fatal configuration error (bad boolean, source directory in
\* the output directory, mark collision) the run is over with exit status 1:
\* no probe was made, the licenses were not resolved, nothing was printed
\* besides the error, no configuration was returned, main() did not start
\* and no further step is possible.
C9_FatalStopsEverything ==
    (diag.kind \in FatalConfigErrors) =>
        /\ pc = "exited" /\ exitStatus = 1
        /\ probe = "none"
        /\ ~licensed
        /\ notices = <<>>
        /\ returned = NoConfig
        /\ ~MainRan
        /\ "pages" \notin DOMAIN proj_data
        /\ ~ENABLED Next

\* the latest of the fatal checks ended the run
C9_Witness ==
    /\ pc = "exited" /\ diag.kind = "marks"
    /\ Truthy(proj_data["preprocess"])

(***************************************************************************)
(* C10                                                                     *)
(***************************************************************************)
\* preprocessing as the merged options request it
Requested ==
    IF "preprocess" \in DOMAIN meta
    THEN Lower(meta["preprocess"][1]) = "true"
    ELSE defaults["preprocess"].b

\* the command the merged options name, as tokens
RequestedCommand ==
    IF "preprocessor" \in DOMAIN meta
       /\ SplitWs(JoinWith("\n", meta["preprocessor"]), 1, "") # <<>>
    THEN SplitWs(JoinWith("\n", meta["preprocessor"]), 1, "")
    ELSE DefaultPreprocessor

\* C10: at return preprocessing is either off, or on with the preprocessor
\* option holding the command as tokens; it is on only if the probe was
\* made and the command started; the probe is made only if preprocessing
\* was requested, and if it was not, preprocessing is off.
C10_PreprocessorStates ==
    (pc = "returned") =>
        /\ Truthy(proj_data["preprocess"]) =>
              proj_data["preprocessor"] = List(RequestedCommand)
        /\ Truthy(proj_data["preprocess"]) => probe = "started"
        /\ probe # "none" => Requested
        /\ ~Requested => ~Truthy(proj_data["preprocess"])

(***************************************************************************)
(* C11                                                                     *)
(***************************************************************************)
ListOptions == {o \in Options : defaults[o].kind = "list"}
Elements(q) == {q[i] : i \in 1..Len(q)}

\* C11: after the merge loop a list option holds the command-line list, in
\* command-line order and with no element taken from the metadata, when the
\* option was given on the command line; else the metadata list as it
\* stands in the document, when the metadata has the key; else the default.
C11_ListsReplaceNeverMerge ==
    (pc = "paths") =>
        \A o \in ListOptions :
            /\ proj_data[o].kind = "list"
            /\ IF o \in ArgOptions /\ args[o] # None
               THEN /\ proj_data[o].l = args[o].l
                    /\ o \in DOMAIN meta =>
                          \A x \in Elements(meta[o]) \ Elements(args[o].l) :
                              x \notin Elements(proj_data[o].l)
               ELSE IF o \in DOMAIN meta THEN proj_data[o].l = meta[o]
               ELSE proj_data[o].l = defaults[o].l

\* extensions given on the command line and in the metadata
C11_Witness ==
    /\ pc = "paths"
    /\ args["extensions"] = List(<<"f18", "f90">>)
    /\ "extensions" \in DOMAIN meta /\ meta["extensions"] = <<"F90", "f2k">>
    /\ proj_data["extensions"].l = <<"f18", "f90">>

(***************************************************************************)
(* C12                                                                     *)
(***************************************************************************)
LicenseOptions == {"license", "doc_license"}

\* the string the merge loop leaves under a license option
MergedLicense(o) ==
    IF o \in DOMAIN meta THEN JoinWith("\n", meta[o]) ELSE defaults[o].s

\* the notices printed for option o
NoticesFor(o) ==
    {i \in 1..Len(notices) : notices[i].kind = "license" /\ notices[i].a = o}

MitMarkup ==
    "<a rel=\"license\" href=\"https://opensource.org/licenses/MIT\">MIT</a>"

\* C12: at return each of license and doc_license, on its own, holds the
\* canonical markup of its lower-cased value when that is a key of LICENSES
\* (no notice is printed), and its original string otherwise (one notice
\* names the option and the string); the run goes on in both cases, and once
\* the licenses are resolved only main() can end it.
C12_LicenseResolution ==
    /\ (pc = "returned") =>
          /\ exitStatus = -1 /\ diag = NoDiag /\ ENABLED Main
          /\ \A o \in LicenseOptions :
                IF Lower(MergedLicense(o)) \in LICENSE_KEYS
                THEN /\ proj_data[o] = Str(LICENSES(Lower(MergedLicense(o))))
                     /\ Lower(MergedLicense(o)) = "mit" =>
                           proj_data[o].s = MitMarkup
                     /\ Lower(MergedLicense(o)) = "" => proj_data[o].s = ""
                     /\ NoticesFor(o) = {}
                ELSE /\ proj_data[o] = Str(MergedLicense(o))
                     /\ Cardinality(NoticesFor(o)) = 1
                     /\ \A i \in NoticesFor(o) :
                           notices[i].b = <<MergedLicense(o)>>
    /\ (licensed /\ pc = "exited") => diag.kind = "no_files"

\* license: MIT resolved to its markup, doc_license: Custom kept with a notice
C12_Witness ==
    /\ pc = "returned"
    /\ "license" \in DOMAIN meta /\ meta["license"] = <<"MIT">>
    /\ "doc_license" \in DOMAIN meta /\ meta["doc_license"] = <<"Custom">>
    /\ proj_data["license"].s = MitMarkup
    /\ proj_data["doc_license"].s = "Custom"
    /\ Cardinality(NoticesFor("doc_license")) = 1
    /\ NoticesFor("license") = {}

====
